---------------------------- MODULE Spec2Model ----------------------------
(***************************************************************************)
(* A state-machine model of ndvi_app.py: one Streamlit script run after    *)
(* "Run Analysis" is pressed (load AOI, validate its area, search the      *)
(* catalog, keep the best scene per footprint, build the lazy NDVI         *)
(* composite, materialize preview and composite, report).                  *)
(*                                                                         *)
(* Abstractions.  A geometry is represented by its equal-area (EPSG:6933)  *)
(* area in km2; a footprint by the name of its WKB encoding; a raster by   *)
(* one row of NPix pixels; an NDVI value by an exact fraction n/d (float64 *)
(* rounding is not modelled); NaN by the record NaN.  st.stop() raises     *)
(* StopException, a BaseException that "except Exception" does not catch:  *)
(* the run ends at once (pc = "stopped").                                   *)
(***************************************************************************)
EXTENDS Integers, Sequences, FiniteSets

(* ------------------------------ bounds -------------------------------- *)
MaxFeatures == 2
MaxItems == 2
NPix == 2

(* ------------------------- program constants -------------------------- *)
MAX_AREA_KM2 == 500
CoarsenFactor == 4

(* ------------------------------ values -------------------------------- *)
None == [none |-> TRUE]
NaN == [nan |-> TRUE]
Raised == [raised |-> "KeyError"]
Return(v) == [value |-> v]

AreaValues == {300, 600}
Features == UNION {[1..n -> AreaValues] : n \in 0..MaxFeatures}

ItemIds == 1..MaxItems
Footprints == <<"wkbA", "wkbB", "wkbC">>
HashSeeds == {0, 1}
CloudValues == {5, 20}
Datetimes == {1, 2}
Pixels == 1..NPix

B(v) == [v |-> v]

SeqSum(s) ==
  LET RECURSIVE go(_)
      go(i) == IF i > Len(s) THEN 0 ELSE s[i] + go(i + 1)
  IN go(1)

(* exact fractions [n, d] with d > 0 *)
RatLeq(a, b) == a.n * b.d <= b.n * a.d
RatLess(a, b) == a.n * b.d < b.n * a.d
RatEq(a, b) == a.n * b.d = b.n * a.d
RatAdd(a, b) == [n |-> a.n * b.d + b.n * a.d, d |-> a.d * b.d]
RatDiv(a, k) == [n |-> a.n, d |-> a.d * k]

VARIABLES uploaded_file, all_drawings, catalog, remote, hash_seed,
          pc, gdf, area_km2, items, best_items, result, shown, calls,
          stack, clipped, ndvi_img, ndvi_data, retrievals

vars == <<uploaded_file, all_drawings, catalog, remote, hash_seed,
          pc, gdf, area_km2, items, best_items, result, shown, calls,
          stack, clipped, ndvi_img, ndvi_data, retrievals>>

world == <<uploaded_file, all_drawings, catalog, remote, hash_seed>>
wfvars == <<stack, clipped, ndvi_img, ndvi_data, retrievals>>

(* ---------------------------- catalog items --------------------------- *)
(* A STAC item: id, footprint geometry, acquisition datetime and a        *)
(* properties mapping that holds "eo:cloud_cover" or lacks the key.       *)
CloudKey == "eo:cloud_cover"
NoProps == [k \in {} |-> 0]
Props(c) == [k \in {CloudKey} |-> c]
Item(i, g, t, p) == [id |-> i, geometry |-> g, datetime |-> t, properties |-> p]
PropsValues == {Props(c) : c \in CloudValues} \cup {NoProps}
FootprintSet == {Footprints[k] : k \in DOMAIN Footprints}
Items == {Item(i, g, t, p) : i \in ItemIds, g \in FootprintSet, t \in Datetimes, p \in PropsValues}
UniqueIds(its) == \A i, j \in 1..Len(its) : its[i].id = its[j].id => i = j
Catalogs == {its \in UNION {[1..n -> Items] : n \in 0..MaxItems} : UniqueIds(its)}

(* hash(g.wkb_hex): Python's str hash is seeded per process               *)
(* (PYTHONHASHSEED): equal WKB texts get equal keys, and the keys of       *)
(* different texts and their order depend on the seed.  A collision of the *)
(* 64-bit hash between different footprints is not modelled.               *)
WkbCode(g) == CHOOSE k \in DOMAIN Footprints : Footprints[k] = g
GeomHash(g) == (WkbCode(g) * (hash_seed + 1)) % 3

(* groupby("hash")["cloud"].idxmin(): per key, the row label of the first  *)
(* row holding the group's minimum cloud value.                            *)
IdxMinLast(its, g) ==
  CHOOSE i \in g : /\ \A j \in g : its[i].properties[CloudKey] <= its[j].properties[CloudKey]
                   /\ \A j \in g : its[j].properties[CloudKey] = its[i].properties[CloudKey] => j <= i

IdxMin(its, g) ==
  CHOOSE i \in g : /\ \A j \in g : its[i].properties[CloudKey] <= its[j].properties[CloudKey]
                   /\ \A j \in g : its[j].properties[CloudKey] = its[i].properties[CloudKey] => i <= j

BestRows(its) ==
  LET rows == 1..Len(its)
      keys == {GeomHash(its[i].geometry) : i \in rows}
      group(k) == {i \in rows : GeomHash(its[i].geometry) = k}
  IN {IdxMin(its, group(k)) : k \in keys}

filter_all_items(its) ==
  IF \E i \in 1..Len(its) : CloudKey \notin DOMAIN its[i].properties
  THEN Raised
  ELSE Return(its)

filter_best_items(its) ==
  IF \E i \in 1..Len(its) : CloudKey \notin DOMAIN its[i].properties
  THEN Raised
  ELSE LET best_ids == {its[i].id : i \in BestRows(its)}
       IN Return(SelectSeq(its, LAMBDA it : it.id \in best_ids))

(* ------------------------------ rasters ------------------------------- *)
Cell(nir, red) == [nir |-> nir, red |-> red]
NoDataCell == Cell(NaN, NaN)
Rows(cells) == [Pixels -> cells]

(* stack.rio.clip: cells outside the AOI geometry become NaN; the values   *)
(* are the band assets of the stacked items, one time slice per item.      *)
Retrieve(clip, rem) ==
  [t \in 1..Len(clip.time) |->
     [p \in Pixels |-> IF p \in clip.mask THEN rem[clip.time[t]][p] ELSE NoDataCell]]

(* (nir - red) / (nir + red) in floating point: NaN operands give NaN and  *)
(* 0/0 gives NaN; reflectances are not negative.                           *)
Ndvi(cell) ==
  IF cell.nir = NaN \/ cell.red = NaN THEN NaN
  ELSE IF cell.nir.v + cell.red.v = 0 THEN NaN
  ELSE [n |-> cell.nir.v - cell.red.v, d |-> cell.nir.v + cell.red.v]

Valid(s) == SelectSeq(s, LAMBDA v : v # NaN)

PropagatingMax(s) ==
  IF \E i \in 1..Len(s) : s[i] = NaN THEN NaN
  ELSE LET RECURSIVE go(_, _)
           go(i, acc) == IF i > Len(s) THEN acc
                         ELSE go(i + 1, IF RatLess(acc, s[i]) THEN s[i] ELSE acc)
       IN go(2, s[1])

(* xarray max/min/mean with the default skipna for floats: NaN-skipping,   *)
(* NaN when nothing is valid.                                              *)
NanMax(s) ==
  LET v == Valid(s)
      RECURSIVE go(_, _)
      go(i, acc) == IF i > Len(v) THEN acc
                    ELSE go(i + 1, IF RatLess(acc, v[i]) THEN v[i] ELSE acc)
  IN IF Len(v) = 0 THEN NaN ELSE go(2, v[1])

NanMin(s) ==
  LET v == Valid(s)
      RECURSIVE go(_, _)
      go(i, acc) == IF i > Len(v) THEN acc
                    ELSE go(i + 1, IF RatLess(v[i], acc) THEN v[i] ELSE acc)
  IN IF Len(v) = 0 THEN NaN ELSE go(2, v[1])

MeanOverAllCells(s) ==
  LET v == Valid(s)
      RECURSIVE go(_, _)
      go(i, acc) == IF i > Len(v) THEN acc ELSE go(i + 1, RatAdd(acc, v[i]))
  IN IF Len(v) = 0 THEN NaN ELSE RatDiv(go(2, v[1]), Len(s))

NanMean(s) ==
  LET v == Valid(s)
      RECURSIVE go(_, _)
      go(i, acc) == IF i > Len(v) THEN acc ELSE go(i + 1, RatAdd(acc, v[i]))
  IN IF Len(v) = 0 THEN NaN ELSE RatDiv(go(2, v[1]), Len(v))

(* ndvi.max(dim="time") of the clipped stack, per pixel *)
Composite(clip, rem) ==
  LET data == Retrieve(clip, rem)
  IN [p \in Pixels |-> NanMax([t \in 1..Len(data) |-> Ndvi(data[t][p])])]

(* composite.coarsen(x=4, y=4, boundary='pad').mean(): blocks of           *)
(* CoarsenFactor pixels along the row, the last one padded with NaN.       *)
NBlocks == (NPix + CoarsenFactor - 1) \div CoarsenFactor
Coarsen(grid) ==
  [b \in 1..NBlocks |->
     NanMean([k \in 1..CoarsenFactor |->
                LET p == (b - 1) * CoarsenFactor + k
                IN IF p <= NPix THEN grid[p] ELSE NaN])]

AllNaN(grid) == \A p \in DOMAIN grid : grid[p] = NaN
Statistics(grid) == [mean |-> NanMean(grid), min |-> NanMin(grid), max |-> NanMax(grid)]

(* ------------------------------ the run ------------------------------- *)
Unset == [unset |-> TRUE]
NoFile == [nofile |-> TRUE]
Show(m) == shown' = Append(shown, m)
Call(f) == calls' = Append(calls, f)

(* lines 146-157: the uploaded file wins over the drawings; of the         *)
(* drawings only the first is used.                                        *)
LoadAOI ==
  /\ pc = "start"
  /\ IF uploaded_file # NoFile
     THEN gdf' = uploaded_file.features /\ pc' = "show_aoi" /\ UNCHANGED shown
     ELSE IF Len(all_drawings) > 0
     THEN gdf' = <<all_drawings[1]>> /\ pc' = "show_aoi" /\ UNCHANGED shown
     ELSE Show("Please upload or draw an AOI.") /\ pc' = "stopped" /\ UNCHANGED gdf
  /\ UNCHANGED <<world, area_km2, items, best_items, result, calls, wfvars>>

(* lines 159-164: gdf.geometry.iloc[0] raises IndexError on an empty frame *)
ShowAOI ==
  /\ pc = "show_aoi"
  /\ IF Len(gdf) = 0
     THEN pc' = "main_except" /\ UNCHANGED shown
     ELSE /\ shown' = shown \o <<"AOI Geometry (WKT)", "Bounding Box for STAC Search">>
          /\ pc' = "validate"
  /\ UNCHANGED <<world, gdf, area_km2, items, best_items, result, calls, wfvars>>

(* lines 166-172: the area of row 0 of the reprojected frame *)
ValidateArea ==
  /\ pc = "validate"
  /\ area_km2' = gdf[1]
  /\ IF area_km2' > MAX_AREA_KM2
     THEN Show("AOI exceeds max size") /\ pc' = "stopped"
     ELSE Show("AOI loaded") /\ pc' = "fetch"
  /\ UNCHANGED <<world, gdf, items, best_items, result, calls, wfvars>>

(* lines 174-180 with fetch_items (60-72): the search may raise *)
FetchImagery ==
  /\ pc = "fetch"
  /\ Call("fetch_items")
  /\ \E ok \in BOOLEAN :
       IF ~ok
       THEN pc' = "main_except" /\ UNCHANGED <<items, shown>>
       ELSE /\ items' = catalog
            /\ IF Len(catalog) = 0
               THEN Show("No scenes found.") /\ pc' = "stopped"
               ELSE Show("Available images") /\ pc' = "select"
  /\ UNCHANGED <<world, gdf, area_km2, best_items, result, wfvars>>

(* lines 182-183 *)
SelectBest ==
  /\ pc = "select"
  /\ Call("filter_best_items")
  /\ LET r == filter_best_items(items)
     IN IF r = Raised
        THEN pc' = "main_except" /\ UNCHANGED <<best_items, shown>>
        ELSE best_items' = r.value /\ Show("best scene(s) selected") /\ pc' = "sign"
  /\ UNCHANGED <<world, gdf, area_km2, items, result, wfvars>>

(* lines 186, 85-88: enter compute_ndvi_workflow and sign the items *)
Sign ==
  /\ pc = "sign"
  /\ Call("compute_ndvi_workflow")
  /\ \E ok \in BOOLEAN : pc' = IF ok THEN "stack" ELSE "wf_except"
  /\ UNCHANGED <<world, gdf, area_km2, items, best_items, result, shown, wfvars>>

(* lines 90-102: the lazy stack, one time slice per item, over the total   *)
(* bounds of all geometries of the frame                                   *)
Stack ==
  /\ pc = "stack"
  /\ \E ok \in BOOLEAN :
       IF ok
       THEN /\ stack' = [time |-> [t \in 1..Len(best_items) |-> best_items[t].id],
                         bounds |-> 1..Len(gdf)]
            /\ pc' = "clip"
       ELSE pc' = "wf_except" /\ UNCHANGED stack
  /\ UNCHANGED <<world, gdf, area_km2, items, best_items, result, shown, calls,
                 clipped, ndvi_img, ndvi_data, retrievals>>

(* lines 104-109: clip to the union of all geometries; which pixels of the *)
(* grid lie inside it is decided by the geometry                           *)
Clip ==
  /\ pc = "clip"
  /\ \E ok \in BOOLEAN :
       IF ok
       THEN /\ \E mask \in (SUBSET Pixels) \ {{}} :
                 clipped' = [time |-> stack.time, mask |-> mask, geoms |-> 1..Len(gdf)]
            /\ pc' = "compute_lowres"
       ELSE pc' = "wf_except" /\ UNCHANGED clipped
  /\ UNCHANGED <<world, gdf, area_km2, items, best_items, result, shown, calls,
                 stack, ndvi_img, ndvi_data, retrievals>>

(* lines 111-121: ndvi, composite and lowres are lazy; lowres.compute()    *)
(* evaluates the whole graph, band retrieval included                      *)
ComputePreview ==
  /\ pc = "compute_lowres"
  /\ retrievals' = retrievals + 1
  /\ \E ok \in BOOLEAN :
       IF ok
       THEN /\ ndvi_img' = [values |-> Coarsen(Composite(clipped, remote))]
            /\ pc' = "compute_composite"
       ELSE pc' = "wf_except" /\ UNCHANGED ndvi_img
  /\ UNCHANGED <<world, gdf, area_km2, items, best_items, result, shown, calls,
                 stack, clipped, ndvi_data>>

(* line 122: composite.compute() evaluates the graph again *)
ComputeComposite ==
  /\ pc = "compute_composite"
  /\ retrievals' = retrievals + 1
  /\ \E ok \in BOOLEAN :
       IF ok
       THEN /\ ndvi_data' = [values |-> Composite(clipped, remote)]
            /\ pc' = "extract"
       ELSE pc' = "wf_except" /\ UNCHANGED ndvi_data
  /\ UNCHANGED <<world, gdf, area_km2, items, best_items, result, shown, calls,
                 stack, clipped, ndvi_img>>

(* lines 124-137 *)
Extract ==
  /\ pc = "extract"
  /\ result' = IF AllNaN(ndvi_data.values)
               THEN None
               ELSE [ndvi_data |-> ndvi_data, ndvi_img |-> ndvi_img,
                     statistics |-> Statistics(ndvi_data.values)]
  /\ pc' = "check_result"
  /\ UNCHANGED <<world, gdf, area_km2, items, best_items, shown, calls, wfvars>>

WorkflowExceptPartial ==
  /\ pc = "wf_except"
  /\ Show("NDVI computation error")
  /\ result' = IF ndvi_img = Unset THEN None ELSE [ndvi_img |-> ndvi_img]
  /\ pc' = "check_result"
  /\ UNCHANGED <<world, gdf, area_km2, items, best_items, calls, wfvars>>

(* lines 139-141 *)
WorkflowExcept ==
  /\ pc = "wf_except"
  /\ Show("NDVI computation error")
  /\ result' = None
  /\ pc' = "check_result"
  /\ UNCHANGED <<world, gdf, area_km2, items, best_items, calls, wfvars>>

(* lines 188-190 *)
CheckResult ==
  /\ pc = "check_result"
  /\ IF result = None
     THEN Show("No valid NDVI data found.") /\ pc' = "stopped"
     ELSE pc' = "display" /\ UNCHANGED shown
  /\ UNCHANGED <<world, gdf, area_km2, items, best_items, result, calls, wfvars>>

(* lines 192-205 *)
Display ==
  /\ pc = "display"
  /\ shown' = shown \o <<"NDVI Statistics", "NDVI Plot">>
  /\ pc' = "done"
  /\ UNCHANGED <<world, gdf, area_km2, items, best_items, result, calls, wfvars>>

(* lines 207-209 *)
MainExcept ==
  /\ pc = "main_except"
  /\ Show("An error occurred during analysis.")
  /\ pc' = "done"
  /\ UNCHANGED <<world, gdf, area_km2, items, best_items, result, calls, wfvars>>

(* ------------------------- the whole script run ----------------------- *)
ScenarioCatalogs ==
  { <<>>,
    <<Item(1, "wkbA", 1, Props(5))>>,
    <<Item(1, "wkbA", 2, Props(20)), Item(2, "wkbA", 1, Props(5))>>,
    <<Item(1, "wkbA", 1, Props(5)), Item(2, "wkbB", 1, Props(20))>> }
ScenarioRemotes ==
  {[i \in ItemIds |-> [p \in Pixels |-> c]] : c \in {NoDataCell, Cell(B(3), B(1))}}

Fresh ==
  /\ gdf = <<>> /\ area_km2 = 0 /\ items = <<>> /\ best_items = <<>>
  /\ result = Unset /\ shown = <<>> /\ calls = <<>>
  /\ stack = Unset /\ clipped = Unset /\ ndvi_img = Unset /\ ndvi_data = Unset
  /\ retrievals = 0

Init ==
  /\ uploaded_file \in {NoFile} \cup {[features |-> f] : f \in Features}
  /\ all_drawings \in Features
  /\ catalog \in ScenarioCatalogs
  /\ remote \in ScenarioRemotes
  /\ hash_seed \in HashSeeds
  /\ pc = "start"
  /\ Fresh

Next ==
  \/ LoadAOI \/ ShowAOI \/ ValidateArea \/ FetchImagery \/ SelectBest
  \/ Sign \/ Stack \/ Clip \/ ComputePreview \/ ComputeComposite \/ Extract
  \/ WorkflowExcept \/ CheckResult \/ Display \/ MainExcept

Spec == Init /\ [][Next]_vars

(* ------------------------- claims on the run -------------------------- *)
InSeq(x, s) == \E i \in 1..Len(s) : s[i] = x
(* the equal-area area of the whole AOI: all geometries of the frame *)
TotalArea(g) == SeqSum(g)
Retrieving == {"fetch_items", "filter_best_items", "compute_ndvi_workflow"}
Failed == pc = "wf_except" \/ InSeq("NDVI computation error", shown)
TerminalMessages ==
  {"Please upload or draw an AOI.", "AOI exceeds max size", "No scenes found.",
   "NDVI computation error", "No valid NDVI data found.", "NDVI Plot",
   "An error occurred during analysis."}

(* C1: catalog search and retrieval happen only after area validation has  *)
(* passed; when the AOI's equal-area area exceeds MAX_AREA_KM2 the run     *)
(* halts with the area-exceeded error and fetch_items, filter_best_items   *)
(* and compute_ndvi_workflow are never invoked.                            *)
C1_RetrievalOnlyAfterAreaValidation ==
  /\ (\E i \in 1..Len(calls) : calls[i] \in Retrieving) => InSeq("AOI loaded", shown)
  /\ TotalArea(gdf) > MAX_AREA_KM2 =>
       /\ calls = <<>>
       /\ pc \in {"stopped", "done"} => InSeq("AOI exceeds max size", shown)

(* C5: the composite is materialized exactly once and before the preview,  *)
(* so band retrieval is triggered at most once per run.                    *)
C5_CompositeMaterializedOnceBeforePreview ==
  /\ retrievals <= 1
  /\ ndvi_img # Unset => ndvi_data # Unset

(* C6: all-or-nothing: after a failure inside compute_ndvi_workflow no     *)
(* composite, preview or statistics reach the caller and neither the       *)
(* statistics nor the plot are displayed; a result that holds any of the   *)
(* three holds all three, each fully materialized.                         *)
C6_AllOrNothing ==
  /\ \/ result \in {Unset, None}
     \/ /\ DOMAIN result = {"ndvi_data", "ndvi_img", "statistics"}
        /\ ndvi_data # Unset /\ result.ndvi_data = ndvi_data
        /\ ndvi_img # Unset /\ result.ndvi_img = ndvi_img
        /\ \A k \in {"mean", "min", "max"} : result.statistics[k] # NaN
  /\ Failed =>
       /\ result \in {Unset, None}
       /\ ~InSeq("NDVI Statistics", shown)
       /\ ~InSeq("NDVI Plot", shown)
  /\ (InSeq("NDVI Statistics", shown) \/ InSeq("NDVI Plot", shown)) =>
       result \notin {Unset, None}

(* C6 witness: the preview was materialized, the composite's own           *)
(* materialization failed, and the run has ended.                          *)
C6_FailedAfterPreview ==
  /\ pc = "stopped"
  /\ InSeq("NDVI computation error", shown)
  /\ ndvi_img # Unset /\ ndvi_data = Unset
  /\ result = None

(* C9: "No valid NDVI data found." is shown only for a composite that was  *)
(* materialized and is entirely NaN, never together with a failure report; *)
(* a finished run has shown exactly one terminal outcome.                  *)
C9_ExactlyOneTerminalOutcome ==
  /\ InSeq("No valid NDVI data found.", shown) =>
       /\ ndvi_data # Unset
       /\ AllNaN(ndvi_data.values)
       /\ ~InSeq("NDVI computation error", shown)
  /\ pc \in {"stopped", "done"} =>
       Cardinality({i \in 1..Len(shown) : shown[i] \in TerminalMessages}) = 1

(* C10: the validated area is the area of the AOI the run uses: once       *)
(* catalog search is reached, the total equal-area area of all geometries  *)
(* of the loaded AOI (whose bounds drive the search and whose union clips  *)
(* the stack) is at most MAX_AREA_KM2.                                     *)
C10_SearchedAreaWithinThreshold ==
  /\ InSeq("fetch_items", calls) => TotalArea(gdf) <= MAX_AREA_KM2
  /\ clipped # Unset =>
       TotalArea([i \in clipped.geoms |-> gdf[i]]) <= MAX_AREA_KM2

(* --------------------- filter_best_items on its own ------------------- *)
(* The run at line 182, for every non-empty search result.                 *)
InitDedup ==
  /\ uploaded_file = NoFile /\ all_drawings = <<300>>
  /\ catalog \in Catalogs \ {<<>>}
  /\ remote = [i \in ItemIds |-> [p \in Pixels |-> Cell(B(3), B(1))]]
  /\ hash_seed \in HashSeeds
  /\ pc = "select"
  /\ gdf = <<300>> /\ area_km2 = 300 /\ items = catalog /\ best_items = <<>>
  /\ result = Unset
  /\ shown = <<"AOI Geometry (WKT)", "Bounding Box for STAC Search", "AOI loaded",
               "Available images">>
  /\ calls = <<"fetch_items">>
  /\ stack = Unset /\ clipped = Unset /\ ndvi_img = Unset /\ ndvi_data = Unset
  /\ retrievals = 0

NextDedup == SelectBest \/ MainExcept

SpecDedup == InitDedup /\ [][NextDedup]_vars

HasCloud(it) == CloudKey \in DOMAIN it.properties
Selected == pc = "sign"
SameFootprint(its, g) == {i \in 1..Len(its) : its[i].geometry = g}
Kept(g) == {k \in 1..Len(best_items) : best_items[k].geometry = g}

(* C2: for a non-empty input, the returned items are a sub-sequence of the *)
(* input (input items, original relative order) with at most one item per *)
(* footprint geometry, and the input is left as it was.                    *)
C2_SubsequenceOnePerFootprint ==
  Selected =>
    /\ \E f \in [1..Len(best_items) -> 1..Len(items)] :
         /\ \A k \in 1..Len(best_items) : items[f[k]] = best_items[k]
         /\ \A k, l \in 1..Len(best_items) : k < l => f[k] < f[l]
    /\ \A k, l \in 1..Len(best_items) :
         best_items[k].geometry = best_items[l].geometry => k = l
    /\ items = catalog

(* C2 witness: two scenes of one footprint went in, one came out *)
C2_DuplicateFootprintDropped ==
  /\ Selected
  /\ Len(items) = 2 /\ items[1].geometry = items[2].geometry
  /\ Len(best_items) = 1

(* the order of the claim: cloud cover, then timestamp, then identifier *)
ClaimedBefore(a, b) ==
  \/ a.properties[CloudKey] < b.properties[CloudKey]
  \/ /\ a.properties[CloudKey] = b.properties[CloudKey]
     /\ \/ a.datetime < b.datetime
        \/ a.datetime = b.datetime /\ a.id <= b.id

(* C3 as stated: of the items of one footprint exactly one is retained,    *)
(* the one lowest in (cloud cover, acquisition timestamp, identifier),     *)
(* whatever the order of the input.                                        *)
C3_TieBrokenByTimestampThenId ==
  Selected =>
    \A g \in FootprintSet :
      SameFootprint(items, g) # {} =>
        /\ Cardinality(Kept(g)) = 1
        /\ \A k \in Kept(g) : \A i \in SameFootprint(items, g) :
             ClaimedBefore(best_items[k], items[i])

(* C3 amended: of the items of one footprint exactly one is retained, one  *)
(* of lowest cloud cover, and among those of lowest cloud cover the one    *)
(* that comes first in the input.                                          *)
C3_LowestCloudFirstInInput ==
  Selected =>
    \A g \in FootprintSet :
      SameFootprint(items, g) # {} =>
        /\ Cardinality(Kept(g)) = 1
        /\ \A k \in Kept(g) : \E i \in SameFootprint(items, g) :
             /\ items[i] = best_items[k]
             /\ \A j \in SameFootprint(items, g) :
                  /\ items[i].properties[CloudKey] <= items[j].properties[CloudKey]
                  /\ items[j].properties[CloudKey] = items[i].properties[CloudKey] => i <= j

(* C3 witness: a cloud-cover tie in one footprint, won by the first item   *)
(* although the second is earlier and has the lower identifier.            *)
C3_TieWonByFirstInInput ==
  /\ Selected
  /\ Len(items) = 2 /\ items[1].geometry = items[2].geometry
  /\ items[1].properties[CloudKey] = items[2].properties[CloudKey]
  /\ items[2].datetime < items[1].datetime /\ items[2].id < items[1].id
  /\ best_items = <<items[1]>>

(* C4: an item without a cloud-cover value does not make                   *)
(* filter_best_items fail; it counts as 100% cloud cover, so it is kept    *)
(* only if no item of its footprint has a known cloud cover below 100, and *)
(* the run goes on to stack assembly.                                      *)
EffectiveCloud(it) == IF HasCloud(it) THEN it.properties[CloudKey] ELSE 100
C4_MissingCloudCountsAs100 ==
  (pc # "select" /\ \E i \in 1..Len(items) : ~HasCloud(items[i])) =>
    /\ Selected
    /\ \A k \in 1..Len(best_items) :
         \A i \in SameFootprint(items, best_items[k].geometry) :
           EffectiveCloud(best_items[k]) <= EffectiveCloud(items[i])

(* ------------------- the raster computation on its own ---------------- *)
(* The run at line 111, for every clipped stack of up to MaxItems time     *)
(* slices (one scene per footprint) of NPix pixels.                        *)
GridCells == {NoDataCell, Cell(B(0), B(0)), Cell(B(3), B(1)), Cell(B(1), B(3))}
Min(a, b) == IF a <= b THEN a ELSE b
GridScene(t) == Item(t, Footprints[t], 1, Props(5))

InitGrid ==
  /\ uploaded_file = NoFile /\ all_drawings = <<300>>
  /\ \E n \in 1..Min(MaxItems, Len(Footprints)) :
       /\ catalog = [t \in 1..n |-> GridScene(t)]
       /\ remote \in {r \in [ItemIds -> Rows(GridCells)] :
                        \A i \in ItemIds : i > n => r[i] = [p \in Pixels |-> NoDataCell]}
  /\ hash_seed = 0
  /\ pc = "compute_lowres"
  /\ gdf = <<300>> /\ area_km2 = 300 /\ items = catalog /\ best_items = catalog
  /\ result = Unset
  /\ shown = <<"AOI Geometry (WKT)", "Bounding Box for STAC Search", "AOI loaded",
               "Available images", "best scene(s) selected">>
  /\ calls = <<"fetch_items", "filter_best_items", "compute_ndvi_workflow">>
  /\ stack = [time |-> [t \in 1..Len(catalog) |-> catalog[t].id], bounds |-> {1}]
  /\ clipped = [time |-> stack.time, mask |-> Pixels, geoms |-> {1}]
  /\ ndvi_img = Unset /\ ndvi_data = Unset
  /\ retrievals = 0

NextGrid == ComputePreview \/ ComputeComposite \/ Extract \/ WorkflowExcept

SpecGrid == InitGrid /\ [][NextGrid]_vars

(* the index values of pixel p over time, from the clipped stack *)
Series(p) ==
  LET data == Retrieve(clipped, remote)
  IN [t \in 1..Len(data) |-> Ndvi(data[t][p])]
ValidCells(grid) == {p \in DOMAIN grid : grid[p] # NaN}
RECURSIVE SumOver(_, _)
SumOver(grid, S) ==
  IF S = {} THEN [n |-> 0, d |-> 1]
  ELSE LET p == CHOOSE q \in S : TRUE
       IN RatAdd(grid[p], SumOver(grid, S \ {p}))

C8_NanSkippingMax ==
  ndvi_data # Unset =>
    \A p \in Pixels :
      LET s == Series(p)
          valid == {t \in 1..Len(s) : s[t] # NaN}
      IN /\ ndvi_data.values[p] = NaN <=> valid = {}
         /\ valid # {} =>
              /\ \E t \in valid : ndvi_data.values[p] = s[t]
              /\ \A t \in valid : RatLeq(s[t], ndvi_data.values[p])

(* C8 witness: a pixel that is NaN in one slice and valid in another, and  *)
(* whose composite is the valid value                                      *)
C8_ValidSliceBeatsNaN ==
  /\ ndvi_data # Unset
  /\ \E p \in Pixels : \E t, u \in 1..Len(Series(p)) :
       /\ Series(p)[t] = NaN /\ Series(p)[u] # NaN
       /\ ndvi_data.values[p] # NaN
=============================================================================
